---- MODULE Spec2Model ----
(***************************************************************************)
(* A model of the XC120 bridge command channel,                            *)
(* src/acconeer/exptool/flash/_xc120/_xcbridge_comm.py.                    *)
(*                                                                         *)
(* XCCommunication objects ("sessions") are driven by host threads.  Each  *)
(* public method is cut at its only blocking point, the timed wait in      *)
(* _execute_request: one action sends the request, a second one consumes   *)
(* a response frame (or times out) and runs the method to its next send    *)
(* or to its end.  The device and the UartReader thread are the            *)
(* environment: the device may answer a transmitted request with any of    *)
(* the frames of Frames, and the reader queues what arrives.               *)
(***************************************************************************)
EXTENDS Integers, Sequences, FiniteSets, TLC

\* ------------------------------------------------------------ bounds
\* Frames transmitted in one behaviour, over all sessions.
MaxSent == 3
\* Operations the clients invoke in one behaviour, over all threads.
MaxOps == 3

Threads == {"t1", "t2"}
Sessions == {"a", "b"}
\* Device paths.
Ports == {1, 2}

\* self._ser = None
None == 0

\* ------------------------------------------------------------ codec
\* Command ids of the request and response packet classes.
GetLastErrorId == 2
GetAppSwVersionId == 266
GetAppSwNameId == 267
DfuRebootId == 65535

\* n.to_bytes(2, byteorder="big")
ToBytesBE2(n) ==
    << (n \div 256) % 256, n % 256 >>

\* n.to_bytes(2, byteorder="little")
ToBytesLE2(n) ==
    << n % 256, (n \div 256) % 256 >>

\* int.from_bytes(bs, byteorder="little") for a slice of at most two bytes
FromBytesLE(bs) ==
    IF Len(bs) = 0 THEN 0
    ELSE IF Len(bs) = 1 THEN bs[1]
    ELSE bs[1] + 256 * bs[2]

\* payload[0:2]
Slice02(payload) ==
    SubSeq(payload, 1, IF Len(payload) < 2 THEN Len(payload) ELSE 2)

\* payload[2:]
SliceFrom2(payload) ==
    SubSeq(payload, 3, Len(payload))

\* XcCommandResponsePacket.__init__: the fields read off a frame's payload.
XcCommandResponsePacket(payload) ==
    [ command_id      |-> FromBytesLE(Slice02(payload)),
      command_payload |-> SliceFrom2(payload) ]

\* XcCommandRequestPacket.__init__: the command id is put before the
\* parameter bytes, which every request class leaves empty.
XcCommandRequestPacket(command_id, command_payload) ==
    ToBytesLE2(command_id) \o command_payload

\* The public methods that wait for a reply, and the request each one sends.
Methods == {"get_last_error", "get_app_sw_version", "get_app_sw_name"}

RequestId(fn) ==
    CASE fn = "get_last_error"     -> GetLastErrorId
      [] fn = "get_app_sw_version" -> GetAppSwVersionId
      [] fn = "get_app_sw_name"    -> GetAppSwNameId
      [] fn = "dfu_reboot"         -> DfuRebootId

\* _command_packets.get(command_id, GetLastErrorResponsePacket)
CommandPackets_WithDefault(command_id) ==
    CASE command_id = GetLastErrorId    -> "GetLastErrorResponsePacket"
      [] command_id = GetAppSwVersionId -> "GetAppSwVersionResponsePacket"
      [] command_id = GetAppSwNameId    -> "GetAppSwNameResponsePacket"
      [] OTHER                          -> "GetLastErrorResponsePacket"

\* _command_packets.get(command_id): the response class, or "None".
CommandPackets(command_id) ==
    CASE command_id = GetLastErrorId    -> "GetLastErrorResponsePacket"
      [] command_id = GetAppSwVersionId -> "GetAppSwVersionResponsePacket"
      [] command_id = GetAppSwNameId    -> "GetAppSwNameResponsePacket"
      [] OTHER                          -> "None"

\* The data getter each response class defines beside get_status.
ClassGetter(cls) ==
    CASE cls = "GetLastErrorResponsePacket"    -> "get_response_data"
      [] cls = "GetAppSwVersionResponsePacket" -> "get_version"
      [] cls = "GetAppSwNameResponsePacket"    -> "get_name"

\* The data getter each public method calls on the response it got.
MethodGetter(fn) ==
    CASE fn = "get_last_error"     -> "get_response_data"
      [] fn = "get_app_sw_version" -> "get_version"
      [] fn = "get_app_sw_name"    -> "get_name"

\* bytes.decode("ascii") succeeds on bytes below 128 only.
IsAscii(bs) ==
    \A i \in 1..Len(bs) : bs[i] < 128

\* ReadResponse with one data getter common to all response classes.
ReadResponse_SharedGetter(fn, payload) ==
    LET pkt == XcCommandResponsePacket(payload)
        cls == CommandPackets(pkt.command_id)
        cp  == pkt.command_payload
    IN  IF cls = "None"
          THEN [exc |-> "TypeError", status |-> -1, data |-> << >>]
        ELSE IF Len(cp) = 0
          THEN [exc |-> "IndexError", status |-> -1, data |-> << >>]
        ELSE IF ~IsAscii(Tail(cp))
          THEN [exc |-> "UnicodeDecodeError", status |-> -1, data |-> << >>]
        ELSE [exc |-> "none", status |-> cp[1], data |-> Tail(cp)]

\* ReadResponse with a get_status that reads an empty command payload as
\* status 0.
ReadResponse_DefaultStatus(fn, payload) ==
    LET pkt == XcCommandResponsePacket(payload)
        cls == CommandPackets(pkt.command_id)
        cp  == pkt.command_payload
    IN  IF cls = "None"
          THEN [exc |-> "TypeError", status |-> -1, data |-> << >>]
        ELSE IF ClassGetter(cls) # MethodGetter(fn)
          THEN [exc |-> "AttributeError", status |-> -1, data |-> << >>]
        ELSE IF Len(cp) = 0
          THEN [exc |-> "none", status |-> 0, data |-> << >>]
        ELSE IF ~IsAscii(Tail(cp))
          THEN [exc |-> "UnicodeDecodeError", status |-> -1, data |-> << >>]
        ELSE [exc |-> "none", status |-> cp[1], data |-> Tail(cp)]

\* ReadResponse with data getters that decode the whole command payload,
\* the status byte included.
ReadResponse_KeepStatus(fn, payload) ==
    LET pkt == XcCommandResponsePacket(payload)
        cls == CommandPackets(pkt.command_id)
        cp  == pkt.command_payload
    IN  IF cls = "None"
          THEN [exc |-> "TypeError", status |-> -1, data |-> << >>]
        ELSE IF Len(cp) = 0
          THEN [exc |-> "IndexError", status |-> -1, data |-> << >>]
        ELSE IF ClassGetter(cls) # MethodGetter(fn)
          THEN [exc |-> "AttributeError", status |-> -1, data |-> << >>]
        ELSE IF ~IsAscii(cp)
          THEN [exc |-> "UnicodeDecodeError", status |-> -1, data |-> << >>]
        ELSE [exc |-> "none", status |-> cp[1], data |-> cp]

\* What a public method reads off a received frame before it looks at the
\* status: get_command_packet() (a call of None for an unregistered id),
\* get_status() (payload[0]), then the method's own data getter, which
\* the classes of the other commands do not have, and its ASCII decoding.
ReadResponse(fn, payload) ==
    LET pkt == XcCommandResponsePacket(payload)
        cls == CommandPackets(pkt.command_id)
        cp  == pkt.command_payload
    IN  IF cls = "None"
          THEN [exc |-> "TypeError", status |-> -1, data |-> << >>]
        ELSE IF Len(cp) = 0
          THEN [exc |-> "IndexError", status |-> -1, data |-> << >>]
        ELSE IF ClassGetter(cls) # MethodGetter(fn)
          THEN [exc |-> "AttributeError", status |-> -1, data |-> << >>]
        ELSE IF ~IsAscii(Tail(cp))
          THEN [exc |-> "UnicodeDecodeError", status |-> -1, data |-> << >>]
        ELSE [exc |-> "none", status |-> cp[1], data |-> Tail(cp)]

\* ------------------------------------------------------------ environment
\* The frames a device may put on the command channel: for each command a
\* success and a failure reply, a reply with an unregistered id, replies
\* shorter than the fixed header, and one with a non-ASCII text.
Frames ==
    { << 10, 1, 0, 65 >>, << 10, 1, 3 >>,
      << 11, 1, 0, 66 >>, << 11, 1, 3 >>,
      << 2, 0, 0, 69 >>, << 2, 0, 1 >>,
      << 9, 0, 0 >>, << 2, 0 >>, << 9 >>, << 10, 1, 0, 200 >> }

\* platform.system()
Platforms == {"Linux", "Windows"}

\* ------------------------------------------------------------ state
VARIABLES
    exists,          \* exists[s]: the object s has been constructed
    ser,             \* ser[s]: self._ser, the port of the handle or None
    reader_started,  \* reader_started[s]: self._reader_started
    receivers,       \* receivers[s]: running reader threads started for s
    locked,          \* the ports some serial handle holds exclusively
    rxq,             \* rxq[s]: the frames queued in self._reader
    pending,         \* pending[s]: transmitted requests the device may answer
    thr,             \* thr[t]: where thread t is in the method it runs
    nsent,           \* the frames transmitted so far
    nops,            \* the operations invoked so far
    timeouts,        \* timeouts[s]: a call on the handle of s has timed out
    tx,              \* the frame the last step transmitted, if any
    last,            \* the operation the last step completed, and how
    codec,           \* a packet taken through the codec on its own
    cfg,             \* a SensorConfig and what was read off it
    det,             \* a distance Detector and its client
    app              \* an AppModel

vars == << exists, ser, reader_started, receivers, locked, rxq, pending,
           thr, nsent, nops, timeouts, tx, last, codec, cfg, det, app >>

\* What the steps of the sessions leave alone.
aside == << codec, cfg, det, app >>

\* The variables of the sessions, their threads and their devices.
bridge == << exists, ser, reader_started, receivers, locked, rxq, pending,
             thr, nsent, nops, timeouts, tx, last >>

\* The state of a session's object and handle, and of the port locks.
life == << exists, ser, reader_started, receivers, locked >>

Idle == [pc |-> "idle", op |-> "-", s |-> "-", stack |-> << >>,
         status |-> -1, pre |-> "-", stale |-> FALSE]

\* No operation ended in the last step.  Of an operation that did: the
\* thread, the method and the session; pre, the state the session was in
\* when it was invoked (for the operations that end at once, and close);
\* arg, the port given to __init__; kind, "ok" or the exception; the status
\* and text a CommandFailed carries, or the text returned; first, the
\* status of the reply to the method's own request; ngle, the requests
\* get_last_error() sent for it after that; want and got, the command id
\* of the request waited on and of the frame consumed in the step; stale,
\* whether a frame it consumed answers a request that had timed out.
NoOutcome == [t |-> "-", op |-> "-", s |-> "-", pre |-> "-", arg |-> 0,
              kind |-> "-", status |-> -1, data |-> << >>, first |-> -1,
              ngle |-> 0, want |-> -1, got |-> -1, stale |-> FALSE]

NoTx == [t |-> "-", s |-> "-", bytes |-> << >>]

\* No packet is being taken through the codec.  Of one that is: op, how
\* far it is; id and par, the command id and parameter bytes of a request
\* to encode; bytes, the encoded request or the payload of a response
\* frame; dec, the fields decoded from bytes; re, dec encoded again.
NoDec == [command_id |-> -1, command_payload |-> << >>]

NoCodec == [op |-> "-", id |-> -1, par |-> << >>, bytes |-> << >>,
            dec |-> NoDec, re |-> << >>]

\* No SensorConfig, Detector or AppModel is under study.
NoCfg == [pc |-> "-"]

NoDet == [pc |-> "-"]

NoApp == [pc |-> "-"]

\* No session has been constructed.
InitBridge ==
    /\ exists = [s \in Sessions |-> FALSE]
    /\ ser = [s \in Sessions |-> None]
    /\ reader_started = [s \in Sessions |-> FALSE]
    /\ receivers = [s \in Sessions |-> 0]
    /\ locked = {}
    /\ rxq = [s \in Sessions |-> << >>]
    /\ pending = [s \in Sessions |-> << >>]
    /\ thr = [t \in Threads |-> Idle]
    /\ nsent = 0
    /\ nops = 0
    /\ timeouts = [s \in Sessions |-> FALSE]
    /\ tx = NoTx
    /\ last = NoOutcome

Init ==
    /\ InitBridge
    /\ codec = NoCodec
    /\ cfg = NoCfg
    /\ det = NoDet
    /\ app = NoApp

\* The lifecycle state of a session, as the specification names it.
StateOf(s) ==
    IF ser[s] = None THEN "Closed"
    ELSE IF reader_started[s] THEN "Open"
    ELSE "Stopped"

\* An operation of thread t on session s ends, at once or in close.
Outcome(t, op, s, pre, kind) ==
    [NoOutcome EXCEPT !.t = t, !.op = op, !.s = s, !.pre = pre, !.kind = kind]

\* A client thread that is in no operation invokes one.
Invoke(t) ==
    /\ thr[t].pc = "idle"
    /\ nops < MaxOps
    /\ nops' = nops + 1
    /\ UNCHANGED aside

\* ------------------------------------------------------------ lifecycle
\* serial.Serial(port, exclusive=...): an exclusive open takes the port's
\* lock without blocking and fails when some handle already holds it.
SerialOpenFails(port, exclusive) ==
    exclusive /\ port \in locked

\* serial.Serial(port) without the exclusive flag.
InitExclusive_Shared ==
    FALSE

\* The exclusive flag __init__ passes to serial.Serial.
InitExclusive ==
    TRUE

\* __init__(port) on s ends.
InitOutcome(t, s, port, kind) ==
    [Outcome(t, "init", s, StateOf(s), kind) EXCEPT !.arg = port]

\* Some thread is inside an operation on s.
InUse(s) ==
    \E u \in Threads : thr[u].pc # "idle" /\ thr[u].s = s

\* XCCommunication.__init__(port), on a new object or run again on an
\* existing one that no thread is using.  A handle the object held before
\* is still held while the new one is opened.  It stays open afterwards,
\* and its port locked, while the reader thread that uses it runs; when
\* that reader was stopped the old handle is left unreferenced and is
\* closed then or kept (keep) until it is collected.
XcInit(t, s, port, sys, keep) ==
    /\ Invoke(t)
    /\ ~InUse(s)
    /\ tx' = NoTx
    /\ UNCHANGED << thr, nsent >>
    /\ IF sys # "Linux"
         THEN /\ last' = InitOutcome(t, s, port, "OSError")
              /\ UNCHANGED << life, rxq, pending, timeouts >>
       ELSE LET old  == ser[s]
                free == IF old # None /\ ~reader_started[s] /\ ~keep
                          THEN locked \ {old} ELSE locked
            IN  IF SerialOpenFails(port, InitExclusive)
                  THEN /\ last' = InitOutcome(t, s, port, "ResourceBusy")
                       /\ UNCHANGED << life, rxq, pending, timeouts >>
                ELSE /\ exists' = [exists EXCEPT ![s] = TRUE]
                     /\ ser' = [ser EXCEPT ![s] = port]
                     /\ locked' = IF InitExclusive THEN free \cup {port}
                                                      ELSE free
                     /\ receivers' = [receivers EXCEPT ![s] = @ + 1]
                     /\ reader_started' = [reader_started EXCEPT ![s] = TRUE]
                     /\ rxq' = [rxq EXCEPT ![s] = << >>]
                     /\ pending' = [pending EXCEPT ![s] = << >>]
                     /\ timeouts' = [timeouts EXCEPT ![s] = FALSE]
                     /\ last' = InitOutcome(t, s, port, "ok")

\* XCCommunication.stop(): stops the reader once.
StopReader(s) ==
    IF reader_started[s]
      THEN /\ receivers' = [receivers EXCEPT ![s] = @ - 1]
           /\ reader_started' = [reader_started EXCEPT ![s] = FALSE]
      ELSE UNCHANGED << receivers, reader_started >>

\* XCCommunication.stop() called by a client.
Stop(t, s) ==
    /\ Invoke(t)
    /\ exists[s]
    /\ StopReader(s)
    /\ last' = Outcome(t, "stop", s, StateOf(s), "ok")
    /\ tx' = NoTx
    /\ UNCHANGED << exists, ser, locked, rxq, pending, thr, nsent, timeouts >>

\* XCCommunication.close() (also __exit__), first half: self.stop().
CloseStop(t, s) ==
    /\ Invoke(t)
    /\ exists[s]
    /\ StopReader(s)
    /\ thr' = [thr EXCEPT ![t] = [Idle EXCEPT !.pc = "closing", !.op = "close",
                                              !.s = s, !.pre = StateOf(s)]]
    /\ last' = NoOutcome
    /\ tx' = NoTx
    /\ UNCHANGED << exists, ser, locked, rxq, pending, nsent, timeouts >>

\* XCCommunication.close(), second half: self._ser.close(), which is an
\* attribute access on None once the handle is gone; self._ser = None.
CloseRelease(t) ==
    LET s == thr[t].s
    IN  /\ thr[t].pc = "closing"
        /\ thr' = [thr EXCEPT ![t] = Idle]
        /\ tx' = NoTx
        /\ UNCHANGED << exists, reader_started, receivers, rxq, nsent, nops, aside,
                        timeouts >>
        /\ IF ser[s] = None
             THEN /\ last' = Outcome(t, "close", s, thr[t].pre,
                                     "AttributeError")
                  /\ UNCHANGED << ser, locked, pending >>
             ELSE /\ ser' = [ser EXCEPT ![s] = None]
                  /\ locked' = locked \ {ser[s]}
                  /\ pending' = [pending EXCEPT ![s] = << >>]
                  /\ last' = Outcome(t, "close", s, thr[t].pre, "ok")

\* ------------------------------------------------------------ commands
\* The method whose request thread t is waiting on: the public method it
\* called, or the get_last_error that method (or get_last_error) called.
CurrentFn(t) ==
    IF thr[t].stack = << >> THEN thr[t].op ELSE "get_last_error"

\* _send_packet on an open handle: the frame goes out, and the device may
\* answer it.  The request is t's until t's wait for it ends.
Transmit(t, s, cid) ==
    /\ nsent < MaxSent
    /\ nsent' = nsent + 1
    /\ tx' = [t |-> t, s |-> s, bytes |-> XcCommandRequestPacket(cid, << >>)]
    /\ pending' = [pending EXCEPT ![s] = Append(@, [of |-> t])]

\* The wait of t for its request ends: what is still to come, or queued,
\* for that request is from now on the reply to a request that timed out
\* ("late") or that was resolved by another frame ("gone").
Retag(q, t, as) ==
    [i \in 1..Len(q) |-> IF q[i].of = t THEN [q[i] EXCEPT !.of = as]
                                        ELSE q[i]]

\* _send_packet skipping the write when there is no handle.
SendFails_Guarded(s) ==
    FALSE

\* _send_packet finds self._ser to be None.
SendFails(s) ==
    ser[s] = None

\* get_last_error(), get_app_sw_version(), get_app_sw_name() up to the wait
\* in _execute_request: _send_packet writes to self._ser, an attribute
\* access on None after close().
Call(t, s, fn) ==
    /\ Invoke(t)
    /\ exists[s]
    /\ UNCHANGED << life, rxq, timeouts >>
    /\ IF SendFails(s)
         THEN /\ last' = Outcome(t, fn, s, StateOf(s), "AttributeError")
              /\ tx' = NoTx
              /\ UNCHANGED << nsent, pending, thr >>
         ELSE /\ Transmit(t, s, RequestId(fn))
              /\ thr' = [thr EXCEPT ![t] =
                           [Idle EXCEPT !.pc = "wait", !.op = fn, !.s = s]]
              /\ last' = NoOutcome

\* A dfu_reboot() that also takes a queued frame off the reader's queue.
DfuReboot_Consuming(t, s) ==
    /\ Invoke(t)
    /\ exists[s]
    /\ UNCHANGED << life, timeouts, thr >>
    /\ IF SendFails(s)
         THEN /\ last' = Outcome(t, "dfu_reboot", s, StateOf(s),
                                 "AttributeError")
              /\ tx' = NoTx
              /\ UNCHANGED << nsent, pending, rxq >>
         ELSE /\ Transmit(t, s, DfuRebootId)
              /\ rxq' = [rxq EXCEPT ![s] = IF @ = << >> THEN @ ELSE Tail(@)]
              /\ last' = Outcome(t, "dfu_reboot", s, StateOf(s), "ok")

\* dfu_reboot(): _send_packet only.
DfuReboot(t, s) ==
    /\ Invoke(t)
    /\ exists[s]
    /\ UNCHANGED << life, rxq, timeouts, thr >>
    /\ IF SendFails(s)
         THEN /\ last' = Outcome(t, "dfu_reboot", s, StateOf(s),
                                 "AttributeError")
              /\ tx' = NoTx
              /\ UNCHANGED << nsent, pending >>
         ELSE /\ Transmit(t, s, DfuRebootId)
              /\ last' = Outcome(t, "dfu_reboot", s, StateOf(s), "ok")

\* The method thread t called ends in a step that consumed a frame with
\* command id got (-1: none), with an exception or a result.
CallOutcome(t, kind, status, data, first, got, stale) ==
    [Outcome(t, thr[t].op, thr[t].s, "-", kind) EXCEPT
       !.status = status, !.data = data, !.first = first,
       !.ngle = Len(thr[t].stack), !.want = RequestId(CurrentFn(t)),
       !.got = got, !.stale = stale]

\* The status of the reply to the request of the method t called, once
\* get_last_error() is running for it.
FirstStatus(t) ==
    IF thr[t].stack = << >> THEN thr[t].status ELSE thr[t].stack[1]

\* A method returns its data on status 0: to the client, or to the method
\* that called get_last_error(), which raises CommandFailed with its own
\* status and this text; nothing catches it on the way out.
OnZeroStatus(t, data, got, stale) ==
    /\ thr' = [thr EXCEPT ![t] = Idle]
    /\ IF thr[t].stack = << >>
         THEN last' = CallOutcome(t, "ok", 0, data, 0, got, stale)
         ELSE last' = CallOutcome(t, "CommandFailed",
                                  thr[t].stack[Len(thr[t].stack)], data,
                                  FirstStatus(t), got, stale)

\* _execute_request from wait_packet on, with a frame in the reader's queue,
\* and the calling method up to its test of the status.
Receive(t) ==
    LET s     == thr[t].s
        head  == Head(rxq[s])
        r     == ReadResponse(CurrentFn(t), head.b)
        got   == XcCommandResponsePacket(head.b).command_id
        stale == thr[t].stale \/ head.of = "late"
    IN  /\ thr[t].pc = "wait"
        /\ rxq[s] # << >>
        /\ rxq' = [rxq EXCEPT ![s] = Retag(Tail(@), t, "gone")]
        /\ pending' = [pending EXCEPT ![s] = Retag(@, t, "gone")]
        /\ tx' = NoTx
        /\ UNCHANGED << life, nsent, nops, aside, timeouts >>
        /\ IF r.exc # "none"
             THEN /\ last' = CallOutcome(t, r.exc, -1, << >>, FirstStatus(t),
                                         got, stale)
                  /\ thr' = [thr EXCEPT ![t] = Idle]
           ELSE IF r.status # 0
             THEN /\ thr' = [thr EXCEPT ![t].pc = "failed",
                                        ![t].status = r.status,
                                        ![t].stale = stale]
                  /\ last' = NoOutcome
           ELSE OnZeroStatus(t, r.data, got, stale)

\* A get_last_error() on failure that has to take a lock its caller
\* holds, and so never goes on.
GetLastErrorOnFailure_Blocked(t) ==
    /\ thr[t].pc = "failed"
    /\ thr[t].pc = "locked"
    /\ UNCHANGED vars

\* The statement after `if status != 0:` of the three methods:
\* error_msg = self.get_last_error(), up to the wait in _execute_request.
GetLastErrorOnFailure(t) ==
    LET s == thr[t].s
    IN  /\ thr[t].pc = "failed"
        /\ UNCHANGED << life, rxq, nops, aside, timeouts >>
        /\ IF SendFails(s)
             THEN /\ last' = CallOutcome(t, "AttributeError", -1, << >>,
                                         FirstStatus(t), -1, thr[t].stale)
                  /\ thr' = [thr EXCEPT ![t] = Idle]
                  /\ tx' = NoTx
                  /\ UNCHANGED << nsent, pending >>
             ELSE /\ Transmit(t, s, GetLastErrorId)
                  /\ thr' = [thr EXCEPT ![t].pc = "wait",
                                        ![t].stack = Append(@, thr[t].status),
                                        ![t].status = -1]
                  /\ last' = NoOutcome

\* A timeout handler that sends the request again and goes on waiting.
Timeout_Retrying(t) ==
    LET s == thr[t].s
    IN  /\ thr[t].pc = "wait"
        /\ rxq[s] = << >>
        /\ Transmit(t, s, RequestId(CurrentFn(t)))
        /\ last' = NoOutcome
        /\ UNCHANGED << life, rxq, thr, nops, aside, timeouts >>

\* A timeout handler that raises CommandFailed.
Timeout_AsCommandFailed(t) ==
    LET s == thr[t].s
    IN  /\ thr[t].pc = "wait"
        /\ rxq[s] = << >>
        /\ pending' = [pending EXCEPT ![s] = Retag(@, t, "late")]
        /\ timeouts' = [timeouts EXCEPT ![s] = TRUE]
        /\ last' = CallOutcome(t, "CommandFailed", -1, << >>, FirstStatus(t),
                               -1, thr[t].stale)
        /\ thr' = [thr EXCEPT ![t] = Idle]
        /\ tx' = NoTx
        /\ UNCHANGED << life, rxq, nsent, nops, aside >>

\* A timeout handler that also closes the handle.
Timeout_Closing(t) ==
    LET s == thr[t].s
    IN  /\ thr[t].pc = "wait"
        /\ rxq[s] = << >>
        /\ pending' = [pending EXCEPT ![s] = << >>]
        /\ timeouts' = [timeouts EXCEPT ![s] = TRUE]
        /\ last' = CallOutcome(t, "TimeoutError", -1, << >>, FirstStatus(t),
                               -1, thr[t].stale)
        /\ thr' = [thr EXCEPT ![t] = Idle]
        /\ tx' = NoTx
        /\ ser' = [ser EXCEPT ![s] = None]
        /\ locked' = locked \ {ser[s]}
        /\ UNCHANGED << exists, reader_started, receivers, rxq, nsent, nops, aside >>

\* _execute_request when wait_packet raises queue.Empty: TimeoutError.
Timeout(t) ==
    LET s == thr[t].s
    IN  /\ thr[t].pc = "wait"
        /\ rxq[s] = << >>
        /\ pending' = [pending EXCEPT ![s] = Retag(@, t, "late")]
        /\ timeouts' = [timeouts EXCEPT ![s] = TRUE]
        /\ last' = CallOutcome(t, "TimeoutError", -1, << >>, FirstStatus(t),
                               -1, thr[t].stale)
        /\ thr' = [thr EXCEPT ![t] = Idle]
        /\ tx' = NoTx
        /\ UNCHANGED << life, rxq, nsent, nops, aside >>

\* ------------------------------------------------------------ device
\* The device answers the oldest request it has not answered, with any
\* frame; the running reader of the open handle queues it.
DeviceReply(s, f) ==
    /\ pending[s] # << >>
    /\ ser[s] # None
    /\ reader_started[s]
    /\ rxq' = [rxq EXCEPT ![s] = Append(@, [b |-> f,
                                           of |-> Head(pending[s]).of])]
    /\ pending' = [pending EXCEPT ![s] = Tail(@)]
    /\ tx' = NoTx
    /\ last' = NoOutcome
    /\ UNCHANGED << life, thr, nsent, nops, aside, timeouts >>

\* The device never answers the oldest request.
DeviceDrop(s) ==
    /\ pending[s] # << >>
    /\ pending' = [pending EXCEPT ![s] = Tail(@)]
    /\ tx' = NoTx
    /\ last' = NoOutcome
    /\ UNCHANGED << life, rxq, thr, nsent, nops, aside, timeouts >>

\* ------------------------------------------------------------ system
\* The steps of the client threads T on the sessions S, and of the devices.
Step(T, S) ==
    \/ \E t \in T, s \in S, port \in Ports, sys \in Platforms,
          keep \in BOOLEAN : XcInit(t, s, port, sys, keep)
    \/ \E t \in T, s \in S : Stop(t, s)
    \/ \E t \in T, s \in S : CloseStop(t, s)
    \/ \E t \in T : CloseRelease(t)
    \/ \E t \in T, s \in S, fn \in Methods : Call(t, s, fn)
    \/ \E t \in T, s \in S : DfuReboot(t, s)
    \/ \E t \in T : Receive(t)
    \/ \E t \in T : GetLastErrorOnFailure(t)
    \/ \E t \in T : Timeout(t)
    \/ \E s \in S, f \in Frames : DeviceReply(s, f)
    \/ \E s \in S : DeviceDrop(s)

\* Several threads on one session.
Next ==
    Step(Threads, {"a"})

Spec ==
    Init /\ [][Next]_vars

\* One thread on several sessions.
NextOneThread ==
    Step({"t1"}, Sessions)

SpecOneThread ==
    Init /\ [][NextOneThread]_vars

\* ------------------------------------------------------------ codec alone
\* The longest parameter or result data given to the codec.
MaxParam == 2

\* The byte values the codec is given.
CodecBytes == {0, 1, 255}

ByteSeqs(n) ==
    UNION {[1..k -> CodecBytes] : k \in 0..n}

\* The command ids of the request classes.
RequestIds ==
    {GetLastErrorId, GetAppSwVersionId, GetAppSwNameId, DfuRebootId}

\* Payloads of response frames: a command id followed by a status and
\* result data, by a status only or by nothing, and two payloads that
\* are shorter than a command id.
ResponsePayloads ==
    {ToBytesLE2(cid) \o p : cid \in RequestIds, p \in ByteSeqs(MaxParam + 1)}
      \cup {<< >>, << 2 >>}

\* A request to encode, or the payload of a response frame to decode.
InitCodec ==
    /\ InitBridge
    /\ cfg = NoCfg
    /\ det = NoDet
    /\ app = NoApp
    /\ \/ \E cid \in RequestIds, p \in ByteSeqs(MaxParam) :
            codec = [NoCodec EXCEPT !.op = "request", !.id = cid, !.par = p]
       \/ \E b \in ResponsePayloads :
            codec = [NoCodec EXCEPT !.op = "response", !.bytes = b]

\* XcCommandRequestPacket.__init__ on a request.
EncodeRequest ==
    /\ codec.op = "request"
    /\ codec' = [codec EXCEPT
                   !.op = "request encoded",
                   !.bytes = XcCommandRequestPacket(codec.id, codec.par)]
    /\ UNCHANGED << bridge, cfg, det, app >>

\* The encoded request read back as XcCommandResponsePacket.__init__ reads
\* a payload; the request and response frames share type and layout.
DecodeRequest ==
    /\ codec.op = "request encoded"
    /\ codec' = [codec EXCEPT
                   !.op = "request decoded",
                   !.dec = XcCommandResponsePacket(codec.bytes)]
    /\ UNCHANGED << bridge, cfg, det, app >>

\* XcCommandResponsePacket.__init__ on the payload of a response frame.
DecodeResponse ==
    /\ codec.op = "response"
    /\ codec' = [codec EXCEPT
                   !.op = "response decoded",
                   !.dec = XcCommandResponsePacket(codec.bytes)]
    /\ UNCHANGED << bridge, cfg, det, app >>

\* The decoded response encoded as XcCommandRequestPacket.__init__ encodes.
EncodeResponse ==
    /\ codec.op = "response decoded"
    /\ codec' = [codec EXCEPT
                   !.op = "response encoded",
                   !.re = XcCommandRequestPacket(codec.dec.command_id,
                                                 codec.dec.command_payload)]
    /\ UNCHANGED << bridge, cfg, det, app >>

NextCodec ==
    \/ EncodeRequest
    \/ DecodeRequest
    \/ DecodeResponse
    \/ EncodeResponse

SpecCodec ==
    InitCodec /\ [][NextCodec]_vars

\* ------------------------------------------------------------ SensorConfig
\* src/acconeer/exptool/a121/_sensor_config.py
\* The longest list of subsweeps, and the largest number of them, given
\* to the constructor.
MaxSubsweeps == 5

\* An Optional value is None or holds v.
NoList == [none |-> TRUE, v |-> << >>]

NoInt == [none |-> TRUE, v |-> 0]

\* [SubsweepConfig() for _ in range(n)]
SubsweepList(n) ==
    [none |-> FALSE, v |-> [i \in 1..n |-> "SubsweepConfig"]]

\* The arguments of one call of SensorConfig(subsweeps, num_subsweeps).
InitConfig ==
    /\ InitBridge
    /\ codec = NoCodec
    /\ det = NoDet
    /\ app = NoApp
    /\ \E l \in {NoList} \cup {SubsweepList(k) : k \in 0..MaxSubsweeps},
          n \in {NoInt} \cup {[none |-> FALSE, v |-> k] :
                                 k \in 0..MaxSubsweeps} :
         cfg = [pc |-> "args", subsweeps |-> l, num_subsweeps |-> n,
                exc |-> "none", _subsweeps |-> NoList,
                r_subsweeps |-> [read |-> FALSE, exc |-> "none",
                                 val |-> NoList],
                r_num |-> [read |-> FALSE, exc |-> "none", val |-> -1]]

\* SensorConfig.__init__
SensorConfigInit ==
    /\ cfg.pc = "args"
    /\ UNCHANGED << bridge, codec, det, app >>
    /\ IF ~cfg.subsweeps.none /\ ~cfg.num_subsweeps.none
         THEN cfg' = [cfg EXCEPT !.pc = "raised", !.exc = "ValueError"]
       ELSE LET num == IF cfg.subsweeps.none /\ cfg.num_subsweeps.none
                         THEN [none |-> FALSE, v |-> 1]
                         ELSE cfg.num_subsweeps
            IN  IF ~cfg.subsweeps.none
                  THEN cfg' = [cfg EXCEPT !.pc = "built",
                                          !._subsweeps = cfg.subsweeps]
                ELSE IF ~num.none
                  THEN cfg' = [cfg EXCEPT !.pc = "built",
                                          !._subsweeps = SubsweepList(num.v)]
                ELSE cfg' = [cfg EXCEPT !.pc = "built"]

\* The value of the property SensorConfig.subsweeps: its body is `pass`.
SubsweepsProperty ==
    NoList

\* len(x)
PyLen(x) ==
    IF x.none THEN [exc |-> "TypeError", val |-> -1]
              ELSE [exc |-> "none", val |-> Len(x.v)]

\* A read of sensor_config.subsweeps.
Subsweeps ==
    /\ cfg.pc = "built"
    /\ ~cfg.r_subsweeps.read
    /\ cfg' = [cfg EXCEPT !.r_subsweeps = [read |-> TRUE, exc |-> "none",
                                            val |-> SubsweepsProperty]]
    /\ UNCHANGED << bridge, codec, det, app >>

\* A read of sensor_config.num_subsweeps: len(self.subsweeps).
NumSubsweeps ==
    /\ cfg.pc = "built"
    /\ ~cfg.r_num.read
    /\ cfg' = [cfg EXCEPT !.r_num = [read |-> TRUE,
                                      exc |-> PyLen(SubsweepsProperty).exc,
                                      val |-> PyLen(SubsweepsProperty).val]]
    /\ UNCHANGED << bridge, codec, det, app >>

NextConfig ==
    \/ SensorConfigInit
    \/ Subsweeps
    \/ NumSubsweeps

SpecConfig ==
    InitConfig /\ [][NextConfig]_vars

\* ------------------------------------------------------------ Detector
\* src/acconeer/exptool/a121/algo/distance/_detector.py
\* The calls of the client after which no further method is invoked.
MaxClientCalls == 5

\* No method of the detector has been called.  Of the last one called:
\* op, the method; exc, "none" or what it raised; was, self.started when
\* it was called; n, the calls of the client it made.
NoEv == [op |-> "-", exc |-> "none", was |-> FALSE, n |-> 0]

\* Detector.__init__: self.started = False.  calls is the record of the
\* calls made of the client, each with whether it returned.
InitDetector ==
    /\ InitBridge
    /\ codec = NoCodec
    /\ cfg = NoCfg
    /\ app = NoApp
    /\ det = [pc |-> "live", started |-> FALSE, aggregator |-> FALSE,
               calls |-> << >>, ev |-> NoEv]

\* A call of a method of self.client.
ClientCall(fn, ok) ==
    [fn |-> fn, ok |-> ok]

\* What a method that ended did.
Ev(op, exc, n) ==
    [op |-> op, exc |-> exc, was |-> det.started, n |-> n]

\* A start() that sets self.started before it starts the session.
DetectorStart_FlagFirst(setup, start) ==
    /\ det.pc = "live"
    /\ Len(det.calls) < MaxClientCalls
    /\ UNCHANGED << bridge, codec, cfg, app >>
    /\ IF det.started
         THEN det' = [det EXCEPT !.ev = Ev("start", "RuntimeError", 0)]
       ELSE IF setup = "raise"
         THEN det' = [det EXCEPT
                        !.started = TRUE,
                        !.calls = Append(@, ClientCall("setup_session", FALSE)),
                        !.ev = Ev("start", "ClientError", 1)]
       ELSE IF setup = "not a list"
         THEN det' = [det EXCEPT
                        !.started = TRUE,
                        !.calls = Append(@, ClientCall("setup_session", TRUE)),
                        !.ev = Ev("start", "AssertionError", 1)]
       ELSE det' = [det EXCEPT
                      !.aggregator = TRUE,
                      !.calls = @ \o << ClientCall("setup_session", TRUE),
                                        ClientCall("start_session", start) >>,
                      !.started = TRUE,
                      !.ev = Ev("start", IF start THEN "none"
                                                  ELSE "ClientError", 2)]

\* Detector.start().  setup is what client.setup_session() does: it
\* raises, returns something that is not a list, or returns the metadata;
\* start is whether client.start_session() returns.
DetectorStart(setup, start) ==
    /\ det.pc = "live"
    /\ Len(det.calls) < MaxClientCalls
    /\ UNCHANGED << bridge, codec, cfg, app >>
    /\ IF det.started
         THEN det' = [det EXCEPT !.ev = Ev("start", "RuntimeError", 0)]
       ELSE IF setup = "raise"
         THEN det' = [det EXCEPT
                        !.calls = Append(@, ClientCall("setup_session", FALSE)),
                        !.ev = Ev("start", "ClientError", 1)]
       ELSE IF setup = "not a list"
         THEN det' = [det EXCEPT
                        !.calls = Append(@, ClientCall("setup_session", TRUE)),
                        !.ev = Ev("start", "AssertionError", 1)]
       ELSE det' = [det EXCEPT
                      !.aggregator = TRUE,
                      !.calls = @ \o << ClientCall("setup_session", TRUE),
                                        ClientCall("start_session", start) >>,
                      !.started = start,
                      !.ev = Ev("start", IF start THEN "none"
                                                  ELSE "ClientError", 2)]

\* Detector.get_next().  next is what client.get_next() does.
DetectorGetNext(next) ==
    /\ det.pc = "live"
    /\ Len(det.calls) < MaxClientCalls
    /\ UNCHANGED << bridge, codec, cfg, app >>
    /\ IF ~det.started
         THEN det' = [det EXCEPT !.ev = Ev("get_next", "RuntimeError", 0)]
       ELSE det' = [det EXCEPT
                      !.calls = Append(@, ClientCall("get_next",
                                                     next # "raise")),
                      !.ev = Ev("get_next",
                                CASE next = "raise"      -> "ClientError"
                                  [] next = "not a list" -> "AssertionError"
                                  [] OTHER               -> "none", 1)]

\* Detector.stop().  stop is whether client.stop_session() returns.
DetectorStop(stop) ==
    /\ det.pc = "live"
    /\ Len(det.calls) < MaxClientCalls
    /\ UNCHANGED << bridge, codec, cfg, app >>
    /\ IF ~det.started
         THEN det' = [det EXCEPT !.ev = Ev("stop", "RuntimeError", 0)]
       ELSE det' = [det EXCEPT
                      !.calls = Append(@, ClientCall("stop_session", stop)),
                      !.started = ~stop,
                      !.ev = Ev("stop", IF stop THEN "none"
                                                ELSE "ClientError", 1)]

\* What a call of the client may do.
ClientOutcomes == {"ok", "raise", "not a list"}

NextDetector ==
    \/ \E setup \in ClientOutcomes, start \in BOOLEAN :
          DetectorStart(setup, start)
    \/ \E next \in ClientOutcomes : DetectorGetNext(next)
    \/ \E stop \in BOOLEAN : DetectorStop(stop)

SpecDetector ==
    InitDetector /\ [][NextDetector]_vars

\* ------------------------------------------------------------ AppModel
\* src/acconeer/exptool/app/new/app_model/app_model.py
\* The longest list of tagged ports a serial-port update brings.
MaxPorts == 2

\* Python's None, for a port, a tag and a recipient.
NoPort == "None"

PortNames == {"p1", "p2"}

\* The tag of a port: None, or the name of the device on it.
Tags == {"None", "XE132"}

\* A tag that is neither None nor empty.
Truthy(tag) ==
    tag \notin {"None", ""}

\* list[Tuple[str, Optional[str]]], of at most n ports.
TaggedPortLists(n) ==
    UNION { [1..k -> PortNames \X Tags] : k \in 0..n }

\* The interfaces the code names.
ConnectionInterfaces == {"SERIAL", "SOCKET"}

PluginStates == {"UNLOADED", "LOADING", "LOADED_IDLE", "LOADED_BUSY", "UNLOADING"}

\* The messages of the backend: every command without a recipient, and
\* one command for each recipient.  BusyMessage() and IdleMessage() are
\* the messages of command "busy" and "idle" and status "ok".
Messages ==
    [recipient : {NoPort},
     command_name : {"connect_client", "disconnect_client", "server_info",
                     "load_plugin", "unload_plugin", "busy", "idle"},
     status : {"ok", "error"}]
    \cup
    [recipient : {"plot_plugin", "view_plugin", "backend_plugin"},
     command_name : {"connect_client"},
     status : {"ok", "error"}]

NoMessage == [recipient |-> "-", command_name |-> "-", status |-> "-"]

\* What a handler did: op, the handler; msg, the message handled; exc, what
\* it raised; broadcast, whether it called self.broadcast(); signal, the
\* plugin signal it emitted; error, whether it emitted sig_error; was, for
\* a serial-port update, the port selected before it.
AppEv(op, msg, exc, broadcast, signal) ==
    [op |-> op, msg |-> msg, exc |-> exc, broadcast |-> broadcast,
     signal |-> signal, error |-> msg.status = "error", was |-> "-"]

\* AppModel.__init__.
InitApp ==
    /\ InitBridge
    /\ codec = NoCodec
    /\ cfg = NoCfg
    /\ det = NoDet
    /\ app = [pc |-> "live",
              connection_state |-> "DISCONNECTED",
              connection_interface |-> "SERIAL",
              plugin_state |-> "UNLOADED",
              serial_connection_port |-> NoPort,
              available_tagged_ports |-> << >>,
              ev |-> AppEv("-", NoMessage, "none", FALSE, "-")]

\* _handle_backend_message, lines 191-217: what a message without a
\* recipient sets.
CommandEffect(msg) ==
    CASE msg.command_name = "connect_client" ->
           [app EXCEPT !.connection_state =
               IF msg.status = "ok" THEN "CONNECTED" ELSE "DISCONNECTED"]
      [] msg.command_name = "disconnect_client" ->
           [app EXCEPT !.connection_state =
               IF msg.status = "ok" THEN "DISCONNECTED" ELSE "CONNECTED"]
      [] msg.command_name = "load_plugin" ->
           [app EXCEPT !.plugin_state =
               IF msg.status = "ok" THEN "LOADED_IDLE" ELSE "UNLOADED"]
      [] msg.command_name = "unload_plugin" ->
           [app EXCEPT !.plugin_state =
               IF msg.status = "ok" THEN "UNLOADED" ELSE "LOADED_IDLE"]
      [] msg.command_name = "busy" /\ msg.status = "ok" ->
           [app EXCEPT !.plugin_state = "LOADED_BUSY"]
      [] msg.command_name = "idle" /\ msg.status = "ok" ->
           [app EXCEPT !.plugin_state = "LOADED_IDLE"]
      [] OTHER -> app

\* A handler without the return that ends the dispatch to a plugin.
HandleBackendMessage_NoReturn(msg) ==
    /\ app.pc = "live"
    /\ UNCHANGED << bridge, codec, cfg, det >>
    /\ IF msg.recipient \notin {NoPort, "plot_plugin", "view_plugin"}
         THEN app' = [app EXCEPT !.ev = AppEv("_handle_backend_message", msg,
                                              "RuntimeError", FALSE, "-")]
       ELSE app' = [CommandEffect(msg) EXCEPT
                      !.ev = AppEv("_handle_backend_message", msg, "none",
                                   TRUE,
                                   IF msg.recipient = NoPort
                                     THEN "-" ELSE msg.recipient)]

\* AppModel._handle_backend_message(message).
HandleBackendMessage(msg) ==
    /\ app.pc = "live"
    /\ UNCHANGED << bridge, codec, cfg, det >>
    /\ IF msg.recipient # NoPort
         THEN IF msg.recipient \in {"plot_plugin", "view_plugin"}
                THEN app' = [app EXCEPT
                               !.ev = AppEv("_handle_backend_message", msg,
                                            "none", FALSE, msg.recipient)]
              ELSE app' = [app EXCEPT
                             !.ev = AppEv("_handle_backend_message", msg,
                                          "RuntimeError", FALSE, "-")]
       ELSE app' = [CommandEffect(msg) EXCEPT
                      !.ev = AppEv("_handle_backend_message", msg, "none",
                                   TRUE, "-")]

\* The keys of dict(l), in the order of their first insertion.
RECURSIVE DictKeys(_)
DictKeys(l) ==
    IF l = << >> THEN << >>
    ELSE LET r == DictKeys(SubSeq(l, 1, Len(l) - 1))
             k == l[Len(l)][1]
         IN  IF \E i \in 1..Len(r) : r[i] = k THEN r ELSE Append(r, k)

\* k in dict(l).
InDict(l, k) ==
    \E i \in 1..Len(l) : l[i][1] = k

\* dict(l)[k]: the value of the last pair of key k.
DictGet(l, k) ==
    LET I == { i \in 1..Len(l) : l[i][1] = k }
    IN  l[CHOOSE i \in I : \A j \in I : j <= i][2]

\* The first of the keys ks whose tag in dict(l) is truthy, or otherwise.
FirstTagged(ks, l, otherwise) ==
    LET I == { i \in 1..Len(ks) : Truthy(DictGet(l, ks[i])) }
    IN  IF I = {} THEN otherwise
        ELSE ks[CHOOSE i \in I : \A j \in I : i <= j]

\* A search that selects tagged ports only.
FindSuitablePort_TaggedOnly(new_ports) ==
    FirstTagged(DictKeys(new_ports), new_ports, NoPort)

\* _select_new_serial_port, lines 240-247: the first tagged port, or the
\* last port the loop went over, or None when it went over none.
FindSuitablePort(new_ports) ==
    LET ks == DictKeys(new_ports)
    IN  FirstTagged(ks, new_ports,
                    IF ks = << >> THEN NoPort ELSE ks[Len(ks)])

\* The keys of dict(new_ports) that are not in dict(old_ports).
IsAdded(old_ports, k) ==
    ~InDict(old_ports, k)

\* AppModel._select_new_serial_port(old_ports, new_ports, current_port),
\* the two dicts given as the lists they are made from.
SelectNewSerialPort(old_ports, new_ports, current_port) ==
    IF app.connection_state # "DISCONNECTED" THEN current_port
    ELSE IF ~InDict(new_ports, current_port) THEN FindSuitablePort(new_ports)
    ELSE IF Truthy(DictGet(new_ports, current_port)) THEN current_port
    ELSE LET ks == DictKeys(new_ports)
             added == { i \in 1..Len(ks) : IsAdded(old_ports, ks[i])
                                           /\ Truthy(DictGet(new_ports, ks[i])) }
         IN  IF added = {} THEN current_port
             ELSE ks[CHOOSE i \in added : \A j \in added : i <= j]

\* AppModel._handle_serial_port_update(tagged_ports).
HandleSerialPortUpdate(tagged_ports) ==
    /\ app.pc = "live"
    /\ UNCHANGED << bridge, codec, cfg, det >>
    /\ app' = [app EXCEPT
                 !.serial_connection_port =
                     SelectNewSerialPort(app.available_tagged_ports,
                                         tagged_ports, @),
                 !.available_tagged_ports = tagged_ports,
                 !.ev = [AppEv("_handle_serial_port_update", NoMessage,
                               "none", TRUE, "-")
                           EXCEPT !.was = app.serial_connection_port]]

\* AppModel.connect_client().
ConnectClient ==
    /\ app.pc = "live"
    /\ UNCHANGED << bridge, codec, cfg, det >>
    /\ IF app.connection_interface \notin {"SOCKET", "SERIAL"}
         THEN app' = [app EXCEPT !.ev = AppEv("connect_client", NoMessage,
                                              "RuntimeError", FALSE, "-")]
       ELSE app' = [app EXCEPT
                      !.connection_state = "CONNECTING",
                      !.ev = AppEv("connect_client", NoMessage, "none",
                                   TRUE, "-")]

\* AppModel.disconnect_client().
DisconnectClient ==
    /\ app.pc = "live"
    /\ UNCHANGED << bridge, codec, cfg, det >>
    /\ app' = [app EXCEPT
                 !.connection_state = "DISCONNECTING",
                 !.ev = AppEv("disconnect_client", NoMessage, "none",
                              TRUE, "-")]

\* AppModel.set_connection_interface(connection_interface).
SetConnectionInterface(connection_interface) ==
    /\ app.pc = "live"
    /\ UNCHANGED << bridge, codec, cfg, det >>
    /\ app' = [app EXCEPT
                 !.connection_interface = connection_interface,
                 !.ev = AppEv("set_connection_interface", NoMessage, "none",
                              TRUE, "-")]

\* AppModel.set_serial_connection_port(port).
SetSerialConnectionPort(port) ==
    /\ app.pc = "live"
    /\ UNCHANGED << bridge, codec, cfg, det >>
    /\ app' = [app EXCEPT
                 !.serial_connection_port = port,
                 !.ev = AppEv("set_serial_connection_port", NoMessage, "none",
                              TRUE, "-")]

\* AppModel.set_plugin_state(state).
SetPluginState(state) ==
    /\ app.pc = "live"
    /\ UNCHANGED << bridge, codec, cfg, det >>
    /\ app' = [app EXCEPT
                 !.plugin_state = state,
                 !.ev = AppEv("set_plugin_state", NoMessage, "none",
                              TRUE, "-")]

NextApp ==
    \/ \E msg \in Messages : HandleBackendMessage(msg)
    \/ \E tagged_ports \in TaggedPortLists(MaxPorts) :
          HandleSerialPortUpdate(tagged_ports)
    \/ ConnectClient
    \/ DisconnectClient
    \/ \E i \in ConnectionInterfaces : SetConnectionInterface(i)
    \/ \E port \in PortNames \cup {NoPort} : SetSerialConnectionPort(port)
    \/ \E state \in PluginStates : SetPluginState(state)

SpecApp ==
    InitApp /\ [][NextApp]_vars

\* ------------------------------------------------------------ claims
\* The methods that send a command.
Commands == Methods \cup {"dfu_reboot"}

\* The requests of session s that are outstanding: sent, and neither
\* answered nor timed out for the thread that waits.
Outstanding(s) ==
    {t \in Threads : thr[t].pc = "wait" /\ thr[t].s = s}

\* C1: on one session at most one request is outstanding at any moment, so
\* a second thread's request is not sent before the first call's reply or
\* timeout.
C1_SingleFlight ==
    \A s \in Sessions : Cardinality(Outstanding(s)) <= 1

\* In this step thread t, waiting for a reply, consumes a frame whose
\* command id is not the one of the request it waits on.
ConsumesMismatch(t) ==
    /\ thr[t].pc = "wait"
    /\ rxq[thr[t].s] # << >>
    /\ thr'[t] # thr[t]
    /\ XcCommandResponsePacket(Head(rxq[thr[t].s]).b).command_id
         # RequestId(CurrentFn(t))

\* The exceptions a frame of another command ends the call with.
MismatchKinds == {"AttributeError", "TypeError", "IndexError"}

C3_NoLateReply ==
    last.kind \in {"ok", "CommandFailed"} => ~last.stale

\* C4: a wait that ends with no frame queued ends the call with
\* TimeoutError and changes nothing of the session: its handle, its reader
\* and the port lock are as before, so an Open session stays Open.
C4_TimeoutKeepsSession ==
    [][\A t \in Threads :
         (thr[t].pc = "wait" /\ rxq[thr[t].s] = << >> /\ thr'[t] # thr[t]) =>
           /\ last'.t = t
           /\ last'.kind = "TimeoutError"
           /\ thr'[t].pc = "idle"
           /\ UNCHANGED life
      ]_vars

\* A call on an Open session returned its own reply's text after a call on
\* the same handle had timed out.
C4_Witness ==
    /\ last.op \in Methods
    /\ last.kind = "ok"
    /\ ~last.stale
    /\ timeouts[last.s]
    /\ StateOf(last.s) = "Open"

\* C5: get_app_sw_version() and get_app_sw_name() send one get-last-error
\* request after a reply with nonzero status, and the CommandFailed they
\* raise carries that status.
C5_OneErrorFetch ==
    /\ \A t \in Threads :
         thr[t].op \in {"get_app_sw_version", "get_app_sw_name"} =>
           Len(thr[t].stack) <= 1
    /\ (last.op \in {"get_app_sw_version", "get_app_sw_name"}
          /\ last.kind = "CommandFailed") =>
         (last.ngle = 1 /\ last.status = last.first)

\* C6: get_last_error() sends no second request when its reply has a
\* nonzero status.
C6_NoNestedErrorFetch ==
    \A t \in Threads :
      thr[t].op = "get_last_error" => thr[t].stack = << >>

\* C7: close() on a session that is already Closed completes without error.
C7_CloseClosedIsNoOp ==
    (last.op = "close" /\ last.pre = "Closed") => last.kind = "ok"

\* In this step thread t invokes a command on session s, whose handle is
\* gone.
InvokesOnClosed(t, s) ==
    /\ thr[t].pc = "idle"
    /\ exists[s]
    /\ ser[s] = None
    /\ \/ thr'[t].pc = "wait" /\ thr'[t].s = s
       \/ last'.t = t /\ last'.s = s /\ last'.op \in Commands

NoSharedPort ==
    \A s1, s2 \in Sessions :
      (s1 # s2 /\ ser[s1] # None) => ser[s1] # ser[s2]

\* C9: __init__ on a port some handle holds ends in its own step with
\* ResourceBusy, the thread is not left waiting, and nothing of any
\* session changes; no two sessions ever hold the same port.
C9_ExclusivePort ==
    /\ []NoSharedPort
    /\ [][(last'.op = "init" /\ last'.arg \in locked
             /\ last'.kind # "OSError") =>
            /\ last'.kind = "ResourceBusy"
            /\ thr'[last'.t].pc = "idle"
            /\ UNCHANGED << life, rxq, pending >>
         ]_vars

\* An __init__ on the port of another, Open session has failed with
\* ResourceBusy.
C9_Witness ==
    /\ last.op = "init"
    /\ last.kind = "ResourceBusy"
    /\ \E s \in Sessions \ {last.s} :
         ser[s] = last.arg /\ StateOf(s) = "Open"

\* C10: __init__ run again on an Open session does not succeed, and no
\* session has a second running reader.
C10_ReopenRejected ==
    /\ (last.op = "init" /\ last.pre = "Open") => last.kind # "ok"
    /\ \A s \in Sessions : receivers[s] <= 1

\* C11: a session becomes Open only from Closed (__init__ acquires the
\* handle and starts the reader in one step), leaves Open only for the
\* state in which its reader is stopped and its handle still held, and
\* only an Open session transmits a request.
C11_Lifecycle ==
    [][\A s \in Sessions :
         /\ (StateOf(s) # "Open" /\ StateOf(s)' = "Open") =>
              StateOf(s) = "Closed"
         /\ (StateOf(s) = "Open" /\ StateOf(s)' # "Open") =>
              StateOf(s)' = "Stopped"
         /\ tx'.s = s => StateOf(s) = "Open"
      ]_vars

\* In this step thread t, waiting for a reply, consumes a frame.
ConsumesFrame(t) ==
    /\ thr[t].pc = "wait"
    /\ rxq[thr[t].s] # << >>
    /\ thr'[t] # thr[t]

\* The payload of the frame t consumes, and the bytes of a payload that
\* follow the 2-byte command id and the status byte.
Consumed(t) ==
    Head(rxq[thr[t].s]).b

TextOf(b) ==
    SubSeq(b, 4, Len(b))

\* The frame t consumes carries the command id of the request t waits on,
\* status 0 and an ASCII text.
GoodReply(t) ==
    LET b == Consumed(t)
    IN  /\ Len(b) >= 3
        /\ b[1] + 256 * b[2] = RequestId(CurrentFn(t))
        /\ b[3] = 0
        /\ \A i \in 4..Len(b) : b[i] < 128

\* C12: a reply with the command id of the request, status 0 and an ASCII
\* text ends the method in that step: it returns exactly the bytes after
\* the command id and the status, as text, and sends no further request
\* (a get_last_error called by a failed method hands the text to that
\* method's CommandFailed); and a method returns a text from no other
\* frame.
C12_ReturnsText ==
    [][\A t \in Threads :
         ConsumesFrame(t) =>
           /\ GoodReply(t) =>
                /\ last'.t = t
                /\ last'.op = thr[t].op
                /\ last'.kind = IF thr[t].stack = << >> THEN "ok"
                                                         ELSE "CommandFailed"
                /\ last'.data = TextOf(Consumed(t))
                /\ thr'[t].pc = "idle"
                /\ tx' = NoTx
                /\ nsent' = nsent
           /\ (last'.t = t /\ last'.kind \in {"ok", "CommandFailed"}) =>
                GoodReply(t)
      ]_vars

\* get_app_sw_version() has returned the text of the reply to its request.
C12_Witness ==
    /\ last.op = "get_app_sw_version"
    /\ last.kind = "ok"
    /\ last.got = GetAppSwVersionId
    /\ last.data = << 65 >>

\* C13: a request of any request class, encoded and read back, has the
\* command id and the parameter bytes it was made of; a response payload
\* that holds a command id, decoded and encoded again, is the same bytes,
\* and any response payload decodes to the same command id and command
\* payload (status and result data) before and after.
C13_RoundTrip ==
    /\ codec.op = "request decoded" =>
         /\ codec.dec.command_id = codec.id
         /\ codec.dec.command_payload = codec.par
    /\ codec.op = "response encoded" =>
         /\ Len(codec.bytes) >= 2 => codec.re = codec.bytes
         /\ XcCommandResponsePacket(codec.re) = codec.dec

\* A get_app_sw_name response with a status and result data has been
\* decoded and encoded again.
C13_Witness ==
    /\ codec.op = "response encoded"
    /\ codec.dec.command_id = GetAppSwNameId
    /\ codec.dec.command_payload = << 0, 255, 1 >>
    /\ codec.re = << 11, 1, 0, 255, 1 >>

\* The frame t consumes is shorter than the 2-byte command id and the
\* status byte.
ShortReply(t) ==
    Len(Consumed(t)) < 3

RegisteredIds ==
    {GetLastErrorId, GetAppSwVersionId, GetAppSwNameId}

\* The command id of the frame t consumes is not registered.
UnregisteredReply(t) ==
    XcCommandResponsePacket(Consumed(t)).command_id \notin RegisteredIds

StartsWait(t) ==
    thr[t].pc # "wait" /\ thr'[t].pc = "wait"

\* In this step thread t ends a wait of _execute_request.
EndsWait(t) ==
    thr[t].pc = "wait" /\ thr'[t] # thr[t]

\* C16: an _execute_request transmits the frame of its request once, when
\* it starts to wait, and nothing afterwards: the step that ends the wait
\* transmits nothing, takes exactly one frame off the reader's queue when
\* there is one, and takes none and ends with TimeoutError when there is
\* none; no other step but dfu_reboot() transmits.
C16_OneFramePerCall ==
    [][/\ \A t \in Threads :
            /\ StartsWait(t) =>
                 /\ nsent' = nsent + 1
                 /\ tx'.t = t
                 /\ tx'.bytes = ToBytesLE2(RequestId(
                        IF thr'[t].stack = << >> THEN thr'[t].op
                                                 ELSE "get_last_error"))
                 /\ rxq' = rxq
            /\ EndsWait(t) =>
                 /\ nsent' = nsent
                 /\ tx' = NoTx
                 /\ IF rxq[thr[t].s] = << >>
                      THEN /\ rxq' = rxq
                           /\ last'.t = t
                           /\ last'.kind = "TimeoutError"
                           /\ thr'[t].pc = "idle"
                      ELSE /\ Len(rxq'[thr[t].s]) = Len(rxq[thr[t].s]) - 1
                           /\ \A i \in 1..Len(rxq'[thr[t].s]) :
                                rxq'[thr[t].s][i].b = rxq[thr[t].s][i + 1].b
       /\ nsent' # nsent =>
            \/ \E t \in Threads : StartsWait(t)
            \/ last'.op = "dfu_reboot" /\ nsent' = nsent + 1
      ]_vars

\* A call has timed out after its one request frame, the only frame sent.
C16_Witness ==
    /\ last.op \in Methods
    /\ last.kind = "TimeoutError"
    /\ last.ngle = 0
    /\ nsent = 1
    /\ rxq[last.s] = << >>

\* The frame t consumes carries the command id of the request t waits on,
\* a nonzero status and an ASCII text.
FailureReply(t) ==
    LET b == Consumed(t)
    IN  /\ Len(b) >= 3
        /\ b[1] + 256 * b[2] = RequestId(CurrentFn(t))
        /\ b[3] # 0
        /\ \A i \in 4..Len(b) : b[i] < 128

\* C17: a wait ends the method with TimeoutError exactly when no frame
\* is queued, also when the request waited on is the get-last-error one
\* sent after a reply with nonzero status; it ends the method with
\* CommandFailed exactly when a reply with nonzero status was consumed
\* before and the reply to the get-last-error request is consumed now;
\* and a reply with nonzero status does not end the method but makes it
\* fetch the error text.
C17_TimeoutOrCommandFailed ==
    [][\A t \in Threads :
         EndsWait(t) =>
           /\ (last'.t = t /\ last'.kind = "TimeoutError")
                <=> rxq[thr[t].s] = << >>
           /\ (last'.t = t /\ last'.kind = "CommandFailed")
                <=> (/\ rxq[thr[t].s] # << >>
                     /\ thr[t].stack # << >>
                     /\ \A i \in 1..Len(thr[t].stack) : thr[t].stack[i] # 0
                     /\ GoodReply(t))
           /\ (rxq[thr[t].s] # << >> /\ FailureReply(t)) =>
                /\ thr'[t].pc = "failed"
                /\ thr'[t].status = Consumed(t)[3]
                /\ last' = NoOutcome
      ]_vars

\* A get_app_sw_version() whose reply had status 3 has ended with
\* TimeoutError because its get-last-error request got no reply.
C17_Witness ==
    /\ last.op = "get_app_sw_version"
    /\ last.first = 3
    /\ last.ngle = 1
    /\ last.kind = "TimeoutError"

\* C18: dfu_reboot() ends in the step that invokes it: on a session with
\* a handle it transmits one frame, the command id 0xFFFF and nothing
\* else, and returns; it never waits, takes no frame off the reader's
\* queue whatever is queued, and fails only when the handle is gone, with
\* the AttributeError of the write; and nothing else sends that frame.
C18_FireAndForget ==
    [][(tx'.bytes = << 255, 255 >> \/ last'.op = "dfu_reboot") =>
         /\ last'.op = "dfu_reboot"
         /\ thr' = thr
         /\ thr[last'.t].pc = "idle"
         /\ rxq' = rxq
         /\ IF ser[last'.s] # None
              THEN /\ last'.kind = "ok"
                   /\ nsent' = nsent + 1
                   /\ tx' = [t |-> last'.t, s |-> last'.s,
                              bytes |-> << 255, 255 >>]
              ELSE /\ last'.kind = "AttributeError"
                   /\ nsent' = nsent
                   /\ tx' = NoTx
      ]_vars

\* dfu_reboot() has sent its frame and returned while a frame was queued
\* in the reader, which is still queued.
C18_Witness ==
    /\ last.op = "dfu_reboot"
    /\ last.kind = "ok"
    /\ tx.bytes = << 255, 255 >>
    /\ rxq[last.s] # << >>

\* C19: no reader of a session runs while the session has no handle, and
\* when close() has returned the session has no running reader and no
\* handle.
C19_ReaderStoppedBeforeRelease ==
    /\ \A s \in Sessions : receivers[s] > 0 => ser[s] # None
    /\ (last.op = "close" /\ last.kind = "ok") =>
         (receivers[last.s] = 0 /\ ser[last.s] = None)

\* Thread u is inside a command on session s: its request is sent and the
\* method has not ended.
Unresolved(u, s) ==
    thr[u].pc \in {"wait", "failed"} /\ thr[u].s = s

\* C21: a thread's request is sent on a session only when every command
\* invoked on it earlier by another thread has ended, so commands are
\* resolved in the order of their invocation and never overlap.
C21_Fifo ==
    [][\A t \in Threads :
         (thr[t].pc = "idle" /\ thr'[t].pc = "wait") =>
           \A u \in Threads \ {t} : ~Unresolved(u, thr'[t].s)
      ]_vars

\* The number of subsweeps the arguments of the constructor ask for.
AskedSubsweeps ==
    IF ~cfg.subsweeps.none THEN Len(cfg.subsweeps.v)
    ELSE IF ~cfg.num_subsweeps.none THEN cfg.num_subsweeps.v
    ELSE 1

\* C22: the constructor raises ValueError exactly when it is given both
\* subsweeps and num_subsweeps; of a constructed SensorConfig, subsweeps
\* is a list of as many subsweeps as were asked for (one by default) and
\* num_subsweeps is that number.
C22_NumSubsweepsIsLen ==
    /\ cfg.pc = "raised" =>
         (cfg.exc = "ValueError" /\ ~cfg.subsweeps.none
            /\ ~cfg.num_subsweeps.none)
    /\ cfg.pc = "built" =>
         (cfg.subsweeps.none \/ cfg.num_subsweeps.none)
    /\ (cfg.pc = "built" /\ cfg.r_subsweeps.read) =>
         /\ ~cfg.r_subsweeps.val.none
         /\ Len(cfg.r_subsweeps.val.v) = AskedSubsweeps
    /\ (cfg.pc = "built" /\ cfg.r_num.read) =>
         /\ cfg.r_num.exc = "none"
         /\ cfg.r_num.val = AskedSubsweeps

C24_NoRequestBeforeErrorFetch ==
    \A t \in Threads :
      thr[t].pc = "failed" =>
        ~(tx.t \in Threads \ {t} /\ tx.s = thr[t].s)


\* A call of client.start_session() or client.stop_session().
IsSessionCall(c) ==
    c.fn \in {"start_session", "stop_session"}

\* A call of client.start_session() or client.stop_session() that returned.
IsReturnedSessionCall(c) ==
    IsSessionCall(c) /\ c.ok

\* The calls q begin with start_session and alternate with stop_session.
Alternate(q) ==
    \A i \in 1..Len(q) :
        q[i].fn = IF i % 2 = 1 THEN "start_session" ELSE "stop_session"

\* The last of the calls q started the session.
LastStarted(q) ==
    Len(q) > 0 /\ q[Len(q)].fn = "start_session"

\* start() on a started detector, get_next() and stop() on one that is not,
\* raise RuntimeError with no call of the client and started as it was; a
\* start() that raises leaves started False.
DetectorGuards ==
    /\ (det.ev.op = "start" /\ det.ev.was) => det.ev.exc = "RuntimeError"
    /\ (det.ev.op \in {"get_next", "stop"} /\ ~det.ev.was)
          => det.ev.exc = "RuntimeError"
    /\ det.ev.exc = "RuntimeError"
          => det.ev.n = 0 /\ det.started = det.ev.was
    /\ (det.ev.op = "start" /\ ~det.ev.was /\ det.ev.exc # "none")
          => ~det.started

\* C25, as stated: the guards hold; started is True exactly when the last
\* call of start_session or stop_session that returned was of
\* start_session; and the calls made of start_session and stop_session,
\* whether they returned or raised, strictly alternate.
C25_SessionCallsAlternate ==
    det.pc = "live" =>
        /\ DetectorGuards
        /\ Alternate(SelectSeq(det.calls, IsSessionCall))
        /\ det.started
              <=> LastStarted(SelectSeq(det.calls, IsReturnedSessionCall))

\* C25, amended: the guards hold; started is True exactly when the last
\* call of start_session or stop_session that returned was of
\* start_session; and the calls of them that returned strictly alternate.
C25_StartedIffSessionRunning ==
    det.pc = "live" =>
        /\ DetectorGuards
        /\ Alternate(SelectSeq(det.calls, IsReturnedSessionCall))
        /\ det.started
              <=> LastStarted(SelectSeq(det.calls, IsReturnedSessionCall))

\* The session was started and stopped, and a second start() made
\* start_session raise: the detector is not started.
C25_Witness ==
    /\ det.pc = "live"
    /\ det.ev = [op |-> "start", exc |-> "ClientError", was |-> FALSE, n |-> 2]
    /\ ~det.started
    /\ Len(SelectSeq(det.calls, IsReturnedSessionCall)) = 2
    /\ det.calls[Len(det.calls)] = ClientCall("start_session", FALSE)


\* C26: connection_state becomes CONNECTING only in connect_client() and
\* DISCONNECTING only in disconnect_client(); a message without a recipient
\* sets, for connect_client, CONNECTED if its status is ok and DISCONNECTED
\* otherwise, and for disconnect_client, DISCONNECTED if ok and CONNECTED
\* otherwise; a message with a recipient changes neither connection_state
\* nor plugin_state and makes no broadcast.
C26_ConnectionStateSteps ==
    [][/\ (app'.connection_state = "CONNECTING"
             /\ app.connection_state # "CONNECTING")
          => app'.ev.op = "connect_client"
       /\ (app'.connection_state = "DISCONNECTING"
             /\ app.connection_state # "DISCONNECTING")
          => app'.ev.op = "disconnect_client"
       /\ LET msg == app'.ev.msg
          IN  app'.ev.op = "_handle_backend_message" =>
            /\ (msg.recipient = NoPort /\ msg.command_name = "connect_client")
                  => /\ app'.connection_state = IF msg.status = "ok"
                                                  THEN "CONNECTED"
                                                  ELSE "DISCONNECTED"
                     /\ app'.ev.broadcast
            /\ (msg.recipient = NoPort
                  /\ msg.command_name = "disconnect_client")
                  => /\ app'.connection_state = IF msg.status = "ok"
                                                  THEN "DISCONNECTED"
                                                  ELSE "CONNECTED"
                     /\ app'.ev.broadcast
            /\ msg.recipient # NoPort
                  => /\ app'.connection_state = app.connection_state
                     /\ app'.plugin_state = app.plugin_state
                     /\ ~app'.ev.broadcast
      ]_vars

\* A disconnect_client that failed was handled while disconnecting: the
\* client is connected again, and the handler broadcast.
C26_Witness ==
    /\ app.pc = "live"
    /\ app.ev.op = "_handle_backend_message"
    /\ app.ev.msg = [recipient |-> NoPort,
                     command_name |-> "disconnect_client",
                     status |-> "error"]
    /\ app.connection_state = "CONNECTED"
    /\ app.ev.broadcast
    /\ app.ev.error


\* C27: a serial-port update while connection_state is not DISCONNECTED
\* leaves serial_connection_port as it was, and of the state replaces
\* available_tagged_ports only; while DISCONNECTED, if the port selected
\* before is not in the new list, the port selected after is None when the
\* new list is empty and only then, and otherwise a port of the new list.
C27_SerialPortUpdate ==
    [][app'.ev.op = "_handle_serial_port_update" =>
        /\ app'.connection_state = app.connection_state
        /\ app'.connection_interface = app.connection_interface
        /\ app'.plugin_state = app.plugin_state
        /\ app.connection_state # "DISCONNECTED"
              => app'.serial_connection_port = app.serial_connection_port
        /\ (app.connection_state = "DISCONNECTED"
              /\ ~InDict(app'.available_tagged_ports,
                         app.serial_connection_port))
              => IF app'.available_tagged_ports = << >>
                   THEN app'.serial_connection_port = NoPort
                   ELSE /\ app'.serial_connection_port # NoPort
                        /\ InDict(app'.available_tagged_ports,
                                  app'.serial_connection_port)
      ]_vars

\* Disconnected, with p1 selected, the update brought p2 alone and with no
\* tag: p2 is selected.
C27_Witness ==
    /\ app.pc = "live"
    /\ app.ev.op = "_handle_serial_port_update"
    /\ app.ev.was = "p1"
    /\ app.connection_state = "DISCONNECTED"
    /\ app.available_tagged_ports = << << "p2", "None" >> >>
    /\ app.serial_connection_port = "p2"

====
